---- MODULE Spec2Model ----
(***************************************************************************)
(* A model of capreolus' rerank task (src/capreolus/task/rerank.py): the   *)
(* construction of the fold-restricted, capped sub-runs, the order of the  *)
(* extractor / trainer calls of rerank_run and predict, the prediction     *)
(* files they leave on disk, and evaluate()'s cross-fold lookup of them;   *)
(* of CodeSearchNetCorpus.download_if_missing (benchmark/codesearchnet.py) *)
(* and of the BagOfWords vocabulary (extractor/bagofwords.py, __init__.py).*)
(*                                                                         *)
(* A Run is a Python insertion-ordered dict of insertion-ordered dicts:    *)
(* a sequence of <<qid, docs>> with distinct qids, docs a sequence of      *)
(* <<docid, score>> with distinct docids.  Paths and fold names are        *)
(* sequences of one-character strings, so that str.replace is computed.    *)
(***************************************************************************)
EXTENDS Integers, Sequences, FiniteSets, TLC

VARIABLES
    config,           \* self.config: fold, threshold, testthreshold
    pc,               \* position of the running command
    best_search_run,  \* the first-stage run loaded by train() / predict()
    train_run,        \* rerank_run's local train_run
    dev_run,          \* rerank_run's local dev_run
    test_run,         \* rerank_run's / predict's local test_run
    rerun,            \* the sub-run construction applied to its own output
    files,            \* the prediction files on disk: path -> Run
    weights,          \* the best checkpoint saved under each results path
    reranker,         \* the reranker: its extractor's cache and its model
    datasets,         \* the datasets prepared by the samplers
    log,              \* the extractor / trainer / benchmark calls of the running command
    reranker_runs,    \* evaluate's local reranker_runs
    result,           \* what the last command returned or raised
    corpus,           \* CodeSearchNetCorpus.download_if_missing: its locals and the files it writes
    extractor         \* the BagOfWords extractor: stoi, itos, idf, qid2toks, docid2toks

runvars == <<best_search_run, train_run, dev_run, test_run, rerun>>

diskvars == <<files, weights>>

taskvars == <<reranker, datasets, log, reranker_runs, result>>

othervars == <<corpus, extractor>>

vars == <<config, pc, runvars, diskvars, taskvars, othervars>>

-----------------------------------------------------------------------------
(* Bounds of the model *)

\* thresholds 0..MaxThreshold are drawn by the sub-run specification
MaxThreshold == 2

Queries == {"q1", "q2", "q3"}
Docs == {"d1", "d2"}
Scores == {1, 2}

-----------------------------------------------------------------------------
(* Fold names and the benchmark's folds *)

S1 == <<"s", "1">>
S10 == <<"s", "1", "0">>
S2 == <<"s", "2">>

\* self.benchmark.folds, an ordered dict: fold name -> train_qids, predict.dev, predict.test
FoldOrder == <<S1, S10, S2>>

FoldNames == {FoldOrder[i] : i \in 1..Len(FoldOrder)}

folds ==
    [f \in FoldNames |->
        IF f = S1 THEN [train_qids |-> {"q1"}, dev |-> {"q2"}, test |-> {"q3"}]
        ELSE IF f = S10 THEN [train_qids |-> {"q2"}, dev |-> {"q1"}, test |-> {"q3"}]
        ELSE [train_qids |-> {"q3"}, dev |-> {"q1"}, test |-> {"q2"}]]

-----------------------------------------------------------------------------
(* Ordered dicts *)

Keys(d) == {d[i][1] : i \in 1..Len(d)}

Index(d, k) == CHOOSE i \in 1..Len(d) : d[i][1] = k

\* d[k] for a key the dict holds
Get(d, k) == d[Index(d, k)][2]

\* d[k] = v: an existing key keeps its position, a new key is appended
Put(d, k, v) ==
    IF k \in Keys(d)
    THEN [d EXCEPT ![Index(d, k)] = <<k, v>>]
    ELSE Append(d, <<k, v>>)

\* run[qid][docid] = score on a defaultdict(dict): a missing qid is created first
PutScore(run, qid, docid, score) ==
    LET docs == IF qid \in Keys(run) THEN Get(run, qid) ELSE <<>>
    IN Put(run, qid, Put(docs, docid, score))

\* the (qid, docid) pairs of a run
Pairs(run) == UNION {{<<run[i][1], run[i][2][j][1]>> : j \in 1..Len(run[i][2])} : i \in 1..Len(run)}

-----------------------------------------------------------------------------
(* The sub-runs of rerank_run and predict *)

\* the loop starts one document late
RECURSIVE CapLoopSkipFirst(_, _, _, _, _)
CapLoopSkipFirst(acc, qid, docs, idx, k) ==
    IF idx + 1 >= Len(docs) \/ idx >= k
    THEN acc
    ELSE CapLoopSkipFirst(PutScore(acc, qid, docs[idx + 2][1], docs[idx + 2][2]), qid, docs, idx + 1, k)

\* the cap is tested after the assignment
RECURSIVE CapLoopLate(_, _, _, _, _)
CapLoopLate(acc, qid, docs, idx, k) ==
    IF idx >= Len(docs) \/ idx > k
    THEN acc
    ELSE CapLoopLate(PutScore(acc, qid, docs[idx + 1][1], docs[idx + 1][2]), qid, docs, idx + 1, k)

\* for idx, (docid, score) in enumerate(docs.items()):
\*     if idx >= k: break
\*     acc[qid][docid] = score
RECURSIVE CapLoop(_, _, _, _, _)
CapLoop(acc, qid, docs, idx, k) ==
    IF idx >= Len(docs) \/ idx >= k
    THEN acc
    ELSE CapLoop(PutScore(acc, qid, docs[idx + 1][1], docs[idx + 1][2]), qid, docs, idx + 1, k)

\* for qid, docs in run.items(): if qid in qids: <CapLoop>
RECURSIVE SubRunLoop(_, _, _, _, _)
SubRunLoop(acc, run, i, qids, k) ==
    IF i > Len(run)
    THEN acc
    ELSE SubRunLoop(IF run[i][1] \in qids THEN CapLoop(acc, run[i][1], run[i][2], 0, k) ELSE acc,
                    run, i + 1, qids, k)

\* the dev sub-run is built over the test query ids
DevRunOverTest(run, fold, threshold) == SubRunLoop(<<>>, run, 1, folds[fold].test, threshold)

\* dev_run of rerank_run
DevRun(run, fold, threshold) == SubRunLoop(<<>>, run, 1, folds[fold].dev, threshold)

\* test_run of rerank_run and of predict
TestRun(run, fold, testthreshold) == SubRunLoop(<<>>, run, 1, folds[fold].test, testthreshold)

\* the train sub-run keeps one document per query
TrainRunCapped(run, fold) == SubRunLoop(<<>>, run, 1, folds[fold].train_qids, 1)

\* train_run = {qid: docs for qid, docs in run.items() if qid in train_qids}
TrainRun(run, fold) == SelectSeq(run, LAMBDA e : e[1] \in folds[fold].train_qids)

-----------------------------------------------------------------------------
(* First-stage runs *)

\* the document lists of one query: non-empty, distinct docids
DocLists ==
    {<<<<d, s>>>> : d \in Docs, s \in Scores}
    \cup {<<<<d1, s1>>, <<d2, s2>>>> : d1 \in Docs, d2 \in Docs, s1 \in Scores, s2 \in Scores}

DocListsDistinct == {l \in DocLists : Cardinality({l[j][1] : j \in 1..Len(l)}) = Len(l)}

RECURSIVE RunsOfLen(_)
RunsOfLen(n) ==
    IF n = 0
    THEN {<<>>}
    ELSE {Append(r, <<q, l>>) : r \in RunsOfLen(n - 1), q \in Queries, l \in DocListsDistinct}

FirstStageRuns ==
    {r \in UNION {RunsOfLen(n) : n \in 0..2} : Cardinality(Keys(r)) = Len(r)}

-----------------------------------------------------------------------------
(* Paths *)

FoldToken == <<"f", "o", "l", "d", "-">>

\* self.get_results_path(): the results root of a task, which embeds "fold-<fold>"
ResultsPath(fold) == <<"r", "e", "r", "a", "n", "k", "_">> \o FoldToken \o fold \o <<"_", "A", "P">>

SplitName(split) ==
    IF split = "dev" THEN <<"d", "e", "v">>
    ELSE IF split = "test" THEN <<"t", "e", "s", "t">>
    ELSE <<"t", "r", "a", "i", "n">>

\* train_output_path / "pred" / split / "best"
PredPath(root, split) ==
    root \o <<"/", "p", "r", "e", "d", "/">> \o SplitName(split) \o <<"/", "b", "e", "s", "t">>

\* str.replace(old, new): every non-overlapping occurrence, left to right
RECURSIVE Replace(_, _, _)
Replace(s, old, new) ==
    IF Len(s) < Len(old) \/ old = <<>>
    THEN s
    ELSE IF SubSeq(s, 1, Len(old)) = old
         THEN new \o Replace(SubSeq(s, Len(old) + 1, Len(s)), old, new)
         ELSE <<s[1]>> \o Replace(Tail(s), old, new)

\* the lookup keeps the configured fold's path for every fold
FoldPathUnreplaced(path, fold) == path

\* Path(path.as_posix().replace("fold-" + self.config["fold"], "fold-" + fold))
FoldPath(path, fold) == Replace(path, FoldToken \o config.fold, FoldToken \o fold)

\* os.path.exists
Exists(path) == path \in DOMAIN files

\* Searcher.load_trec_run(path): the run the file holds; a missing file cannot be opened
CanLoad(path) == path \in DOMAIN files

LoadTrecRun(path) == files[path]

-----------------------------------------------------------------------------
(* The collaborators: the first-stage ranking task, the trainer, the benchmark *)

\* thresholds of the task configuration in the pipeline specification
Threshold == 1
TestThreshold == 2

\* the checkpoints Trainer.train can end with
Checkpoints == {"w1", "w2"}

\* Searcher.load_trec_run(rank_results["path"][fold]): the best first-stage run of a fold
FirstStage(fold) ==
    IF fold = S1
    THEN << <<"q1", << <<"d1", 2>>, <<"d2", 1>> >> >>,
            <<"q2", << <<"d1", 2>>, <<"d2", 1>> >> >>,
            <<"q3", << <<"d2", 2>>, <<"d1", 1>> >> >> >>
    ELSE IF fold = S10
    THEN << <<"q3", << <<"d1", 2>> >> >>,
            <<"q1", << <<"d2", 2>>, <<"d1", 1>> >> >>,
            <<"q2", << <<"d1", 1>> >> >> >>
    ELSE << <<"q2", << <<"d2", 2>>, <<"d1", 2>> >> >>,
            <<"q3", << <<"d1", 1>> >> >>,
            <<"q1", << <<"d1", 2>> >> >> >>

\* the score a checkpoint gives a (query, document) pair
ModelScore(w, qid, docid) ==
    IF w = "w1"
    THEN (IF docid = "d1" THEN 2 ELSE 1)
    ELSE (IF docid = "d1" THEN 1 ELSE 2)

\* e after every entry of the descending list that scores at least as high
InsertDesc(sorted, e) ==
    LET n == Cardinality({j \in 1..Len(sorted) : sorted[j][2] >= e[2]})
    IN SubSeq(sorted, 1, n) \o <<e>> \o SubSeq(sorted, n + 1, Len(sorted))

RECURSIVE SortDesc(_)
SortDesc(docs) ==
    IF docs = <<>>
    THEN <<>>
    ELSE InsertDesc(SortDesc(SubSeq(docs, 1, Len(docs) - 1)), docs[Len(docs)])

\* the run Trainer.predict writes: every pair of the dataset, scored by the loaded model,
\* each query's documents by descending score
Predict(w, dataset) ==
    [i \in 1..Len(dataset) |->
        <<dataset[i][1],
          SortDesc([j \in 1..Len(dataset[i][2]) |->
                      <<dataset[i][2][j][1], ModelScore(w, dataset[i][1], dataset[i][2][j][1])>>])>>]

\* benchmark.evaluate(run, qrels, metrics): the metrics of a run over the qrels of some queries
Evaluate(run, qids) == [run |-> run, qrels |-> qids]

\* evaluator.interpolated_eval(searcher_runs, reranker_runs, benchmark, optimize, metrics)
InterpolatedEval(searcher, rerankers) == [searcher |-> searcher, reranker |-> rerankers]

None == [none |-> TRUE]

-----------------------------------------------------------------------------
(* find_crossvalidated_results and the pooled run of evaluate *)

\* searcher_runs: every fold's first-stage run, as dev and as test
SearcherRuns ==
    [i \in 1..Len(FoldOrder) |->
        <<FoldOrder[i], [dev |-> FirstStage(FoldOrder[i]), test |-> FirstStage(FoldOrder[i])]>>]

\* for fold in self.benchmark.folds: the test run if its path exists, and then the dev run
RECURSIVE FindLoop(_, _)
FindLoop(acc, i) ==
    IF i > Len(FoldOrder)
    THEN [ok |-> TRUE, runs |-> acc]
    ELSE LET fold == FoldOrder[i]
             test_path == FoldPath(PredPath(ResultsPath(config.fold), "test"), fold)
             dev_path == FoldPath(PredPath(ResultsPath(config.fold), "dev"), fold)
         IN IF Exists(test_path)
            THEN IF CanLoad(test_path) /\ CanLoad(dev_path)
                 THEN FindLoop(Append(acc, <<fold, [test |-> LoadTrecRun(test_path),
                                                    dev |-> LoadTrecRun(dev_path)]>>), i + 1)
                 ELSE [ok |-> FALSE, runs |-> acc]
            ELSE FindLoop(acc, i + 1)

\* all_preds.setdefault(qid, {})
SetDefault(run, qid) == IF qid \in Keys(run) THEN run ELSE Append(run, <<qid, <<>>>>)

\* for docid, score in docscores.items(): all_preds[qid][docid] = score
RECURSIVE MergeDocs(_, _, _, _)
MergeDocs(acc, qid, docs, j) ==
    IF j > Len(docs)
    THEN acc
    ELSE MergeDocs(PutScore(acc, qid, docs[j][1], docs[j][2]), qid, docs, j + 1)

\* for qid, docscores in preds["test"].items()
RECURSIVE MergeRun(_, _, _)
MergeRun(acc, run, i) ==
    IF i > Len(run)
    THEN acc
    ELSE MergeRun(MergeDocs(SetDefault(acc, run[i][1]), run[i][1], run[i][2], 1), run, i + 1)

\* for preds in reranker_runs.values()
RECURSIVE AllPredsLoop(_, _, _)
AllPredsLoop(acc, runs, i) ==
    IF i > Len(runs)
    THEN acc
    ELSE AllPredsLoop(MergeRun(acc, runs[i][2].test, 1), runs, i + 1)

AllPreds(runs) == AllPredsLoop(<<>>, runs, 1)

-----------------------------------------------------------------------------
(* The sub-run specification: the sub-run constructions of rerank_run and  *)
(* predict over every first-stage run, fold and threshold.                 *)

NoResult == [kind |-> "none", cmd |-> "none"]

\* download_if_missing has not run
NoCorpus == [pc |-> "none"]

\* BagOfWords.create has not run
NoExtractor == [created |-> FALSE]

NoReranker == [preprocessed |-> <<{}, {}>>, model |-> "none"]

NoDatasets == [train |-> <<>>, dev |-> <<>>, test |-> <<>>]

NoRerun == [dev |-> <<>>, test |-> <<>>]

InitRun ==
    /\ config \in [fold : FoldNames, threshold : 0..MaxThreshold, testthreshold : 0..MaxThreshold]
    /\ best_search_run \in FirstStageRuns
    /\ pc = "run_loaded"
    /\ train_run = <<>>
    /\ dev_run = <<>>
    /\ test_run = <<>>
    /\ rerun = NoRerun
    /\ files = <<>>
    /\ weights = <<>>
    /\ reranker = NoReranker
    /\ datasets = NoDatasets
    /\ log = <<>>
    /\ reranker_runs = <<>>
    /\ result = NoResult
    /\ corpus = NoCorpus
    /\ extractor = NoExtractor

\* rerank_run, lines 71-80
RunTrainDev ==
    /\ pc = "run_loaded"
    /\ train_run' = TrainRun(best_search_run, config.fold)
    /\ dev_run' = DevRun(best_search_run, config.fold, config.threshold)
    /\ pc' = "run_dev"
    /\ UNCHANGED <<config, best_search_run, test_run, rerun, diskvars, taskvars>>
    /\ UNCHANGED othervars

\* rerank_run, lines 109-116
RunTest ==
    /\ pc = "run_dev"
    /\ test_run' = TestRun(best_search_run, config.fold, config.testthreshold)
    /\ pc' = "run_test"
    /\ UNCHANGED <<config, best_search_run, train_run, dev_run, rerun, diskvars, taskvars>>
    /\ UNCHANGED othervars

\* predict, lines 153-160
RunPredictTest ==
    /\ pc = "run_loaded"
    /\ test_run' = TestRun(best_search_run, config.fold, config.testthreshold)
    /\ pc' = "run_predict_test"
    /\ UNCHANGED <<config, best_search_run, train_run, dev_run, rerun, diskvars, taskvars>>
    /\ UNCHANGED othervars

\* the same constructions, fed their own output
RunAgain ==
    /\ pc = "run_test"
    /\ rerun' = [dev |-> DevRun(dev_run, config.fold, config.threshold),
                 test |-> TestRun(test_run, config.fold, config.testthreshold)]
    /\ pc' = "run_again"
    /\ UNCHANGED <<config, best_search_run, train_run, dev_run, test_run, diskvars, taskvars>>
    /\ UNCHANGED othervars

NextRun == RunTrainDev \/ RunTest \/ RunPredictTest \/ RunAgain

SpecRun == InitRun /\ [][NextRun]_vars

-----------------------------------------------------------------------------
(* The pipeline specification: the train, predict and evaluate commands of *)
(* tasks configured for the benchmark's folds, run one after the other     *)
(* over one results tree.                                                  *)

\* the include_train argument of rerank_run: train() passes the default
include_train == FALSE

DocIds(run) == {p[2] : p \in Pairs(run)}

Root == ResultsPath(config.fold)

\* only the documents of the first query are preprocessed
PreprocessFirstQuery(run) ==
    <<Keys(run), IF run = <<>> THEN {} ELSE DocIds(<<run[1]>>)>>

\* extractor.preprocess(qids=run.keys(), docids=set(docid for docs in run.values() for docid in docs))
PreprocessArgs(run) == <<Keys(run), DocIds(run)>>

Error(c, e) == [kind |-> "error", cmd |-> c, error |-> e]

\* raise ValueError("could not find predictions; run the train command first")
MissingPredictions == "could not find predictions; run the train command first"

Init ==
    /\ config = [fold |-> S1, threshold |-> Threshold, testthreshold |-> TestThreshold]
    /\ pc = "idle"
    /\ best_search_run = <<>>
    /\ train_run = <<>>
    /\ dev_run = <<>>
    /\ test_run = <<>>
    /\ rerun = NoRerun
    /\ files = <<>>
    /\ weights = <<>>
    /\ reranker = NoReranker
    /\ datasets = NoDatasets
    /\ log = <<>>
    /\ reranker_runs = <<>>
    /\ result = NoResult
    /\ corpus = NoCorpus
    /\ extractor = NoExtractor

\* a command starts in a fresh task configured for fold f
Begin(f, at) ==
    /\ pc = "idle"
    /\ config' = [config EXCEPT !.fold = f]
    /\ pc' = at
    /\ train_run' = <<>>
    /\ dev_run' = <<>>
    /\ test_run' = <<>>
    /\ reranker' = NoReranker
    /\ datasets' = NoDatasets
    /\ log' = <<>>
    /\ reranker_runs' = <<>>
    /\ result' = NoResult
    /\ UNCHANGED <<rerun, diskvars>>
    /\ UNCHANGED othervars

\* a command ends: its locals are gone, its calls and its outcome stay
End(r) ==
    /\ pc' = "idle"
    /\ result' = r
    /\ best_search_run' = <<>>
    /\ train_run' = <<>>
    /\ dev_run' = <<>>
    /\ test_run' = <<>>
    /\ datasets' = NoDatasets
    /\ reranker_runs' = <<>>

\* train(), lines 45-53
Train ==
    \E f \in FoldNames :
        /\ Begin(f, "rr_preprocess")
        /\ best_search_run' = FirstStage(f)

\* rerank_run, lines 55-67
RrPreprocess ==
    /\ pc = "rr_preprocess"
    /\ reranker' = [reranker EXCEPT !.preprocessed = PreprocessArgs(best_search_run)]
    /\ log' = Append(log, <<"preprocess">>)
    /\ pc' = "rr_build"
    /\ UNCHANGED <<config, runvars, diskvars, datasets, reranker_runs, result>>
    /\ UNCHANGED othervars

\* rerank_run, lines 68-80
RrBuild ==
    /\ pc = "rr_build"
    /\ reranker' = [reranker EXCEPT !.model = "built"]
    /\ log' = Append(log, <<"build_model">>)
    /\ train_run' = TrainRun(best_search_run, config.fold)
    /\ dev_run' = DevRun(best_search_run, config.fold, config.threshold)
    /\ pc' = "rr_prepare"
    /\ UNCHANGED <<config, best_search_run, test_run, rerun, diskvars, datasets, reranker_runs, result>>
    /\ UNCHANGED othervars

\* rerank_run, lines 83-90
RrPrepare ==
    /\ pc = "rr_prepare"
    /\ datasets' = [datasets EXCEPT !.train = train_run, !.dev = dev_run]
    /\ log' = log \o << <<"prepare", "train">>, <<"prepare", "dev">> >>
    /\ pc' = "rr_train"
    /\ UNCHANGED <<config, runvars, diskvars, reranker, reranker_runs, result>>
    /\ UNCHANGED othervars

\* rerank_run, lines 92-102: Trainer.train saves the best checkpoint under train_output_path
RrTrain ==
    /\ pc = "rr_train"
    /\ \E w \in Checkpoints : weights' = (Root :> w) @@ weights
    /\ reranker' = [reranker EXCEPT !.model = "last"]
    /\ log' = Append(log, <<"train">>)
    /\ pc' = "rr_load"
    /\ UNCHANGED <<config, runvars, files, datasets, reranker_runs, result>>
    /\ UNCHANGED othervars

\* rerank_run, line 104
RrLoadBest ==
    /\ pc = "rr_load"
    /\ reranker' = [reranker EXCEPT !.model = weights[Root]]
    /\ log' = Append(log, <<"load_best_model">>)
    /\ pc' = "rr_dev"
    /\ UNCHANGED <<config, runvars, diskvars, datasets, reranker_runs, result>>
    /\ UNCHANGED othervars

\* predict on dev runs whether or not pred/dev/best exists
RrDevPredictAlways ==
    /\ pc = "rr_dev"
    /\ files' = (PredPath(Root, "dev") :> Predict(reranker.model, datasets.dev)) @@ files
    /\ log' = Append(log, <<"predict", "dev", reranker.model>>)
    /\ pc' = "rr_test"
    /\ UNCHANGED <<config, runvars, weights, reranker, datasets, reranker_runs, result>>
    /\ UNCHANGED othervars

\* rerank_run, lines 105-107
RrDevPredict ==
    /\ pc = "rr_dev"
    /\ LET dev_output_path == PredPath(Root, "dev")
       IN IF ~Exists(dev_output_path)
          THEN /\ files' = (dev_output_path :> Predict(reranker.model, datasets.dev)) @@ files
               /\ log' = Append(log, <<"predict", "dev", reranker.model>>)
          ELSE UNCHANGED <<files, log>>
    /\ pc' = "rr_test"
    /\ UNCHANGED <<config, runvars, weights, reranker, datasets, reranker_runs, result>>
    /\ UNCHANGED othervars

\* rerank_run, lines 109-121
RrTestRun ==
    /\ pc = "rr_test"
    /\ test_run' = TestRun(best_search_run, config.fold, config.testthreshold)
    /\ datasets' = [datasets EXCEPT !.test = test_run']
    /\ log' = Append(log, <<"prepare", "test">>)
    /\ pc' = "rr_predict"
    /\ UNCHANGED <<config, best_search_run, train_run, dev_run, rerun, diskvars, reranker, reranker_runs, result>>
    /\ UNCHANGED othervars

\* the test predictions are written under pred/dev/best
RrTestPredictUnderDev ==
    /\ pc = "rr_predict"
    /\ LET test_output_path == PredPath(Root, "dev")
           train_output_path == PredPath(Root, "train")
           tested == (test_output_path :> Predict(reranker.model, datasets.test)) @@ files
       IN IF include_train
          THEN /\ files' = (train_output_path :> Predict(reranker.model, train_run)) @@ tested
               /\ log' = log \o << <<"predict", "test", reranker.model>>,
                                   <<"predict", "train", reranker.model>> >>
          ELSE /\ files' = tested
               /\ log' = Append(log, <<"predict", "test", reranker.model>>)
    /\ End([kind |-> "preds", cmd |-> "train"])
    /\ UNCHANGED <<config, rerun, weights, reranker>>
    /\ UNCHANGED othervars

\* rerank_run, lines 122-136
RrTestPredict ==
    /\ pc = "rr_predict"
    /\ LET test_output_path == PredPath(Root, "test")
           train_output_path == PredPath(Root, "train")
           tested == (test_output_path :> Predict(reranker.model, datasets.test)) @@ files
       IN IF include_train
          THEN /\ files' = (train_output_path :> Predict(reranker.model, train_run)) @@ tested
               /\ log' = log \o << <<"predict", "test", reranker.model>>,
                                   <<"predict", "train", reranker.model>> >>
          ELSE /\ files' = tested
               /\ log' = Append(log, <<"predict", "test", reranker.model>>)
    /\ End([kind |-> "preds", cmd |-> "train"])
    /\ UNCHANGED <<config, rerun, weights, reranker>>
    /\ UNCHANGED othervars

\* predict(), lines 138-143
PredictCmd ==
    \E f \in FoldNames :
        /\ Begin(f, "pr_preprocess")
        /\ best_search_run' = FirstStage(f)

\* predict(), lines 145-148
PrPreprocess ==
    /\ pc = "pr_preprocess"
    /\ reranker' = [reranker EXCEPT !.preprocessed = PreprocessArgs(best_search_run)]
    /\ log' = Append(log, <<"preprocess">>)
    /\ pc' = "pr_load"
    /\ UNCHANGED <<config, runvars, diskvars, datasets, reranker_runs, result>>
    /\ UNCHANGED othervars

\* predict(), lines 149-151: load_best_model fails when no checkpoint was saved
PrLoad ==
    /\ pc = "pr_load"
    /\ IF Root \in DOMAIN weights
       THEN /\ reranker' = [reranker EXCEPT !.model = weights[Root]]
            /\ log' = log \o << <<"build_model">>, <<"load_best_model">> >>
            /\ pc' = "pr_test"
            /\ UNCHANGED <<runvars, datasets, reranker_runs, result>>
       ELSE /\ reranker' = [reranker EXCEPT !.model = "built"]
            /\ log' = Append(log, <<"build_model">>)
            /\ End(Error("predict", "CheckpointNotFoundError"))
    /\ UNCHANGED <<config, rerun, diskvars>>
    /\ UNCHANGED othervars

\* predict(), lines 153-165
PrTestRun ==
    /\ pc = "pr_test"
    /\ test_run' = TestRun(best_search_run, config.fold, config.testthreshold)
    /\ datasets' = [datasets EXCEPT !.test = test_run']
    /\ log' = Append(log, <<"prepare", "test">>)
    /\ pc' = "pr_predict"
    /\ UNCHANGED <<config, best_search_run, train_run, dev_run, rerun, diskvars, reranker, reranker_runs, result>>
    /\ UNCHANGED othervars

\* predict(), lines 166-171
PrTestPredict ==
    /\ pc = "pr_predict"
    /\ files' = (PredPath(Root, "test") :> Predict(reranker.model, datasets.test)) @@ files
    /\ log' = Append(log, <<"predict", "test", reranker.model>>)
    /\ End([kind |-> "preds", cmd |-> "predict"])
    /\ UNCHANGED <<config, rerun, weights, reranker>>
    /\ UNCHANGED othervars

\* evaluate(), lines 181-187
EvaluateCmd ==
    \E f \in FoldNames :
        /\ Begin(f, "ev_find")
        /\ best_search_run' = <<>>

\* evaluate(), line 189: find_crossvalidated_results, lines 239-259
EvFind ==
    /\ pc = "ev_find"
    /\ LET found == FindLoop(<<>>, 1)
       IN IF found.ok
          THEN /\ reranker_runs' = found.runs
               /\ pc' = "ev_check"
               /\ UNCHANGED <<runvars, datasets, result>>
          ELSE /\ End(Error("evaluate", "FileNotFoundError"))
               /\ UNCHANGED rerun
    /\ UNCHANGED <<config, diskvars, reranker, log>>
    /\ UNCHANGED othervars

\* evaluate(), lines 191-193
EvCheck ==
    /\ pc = "ev_check"
    /\ IF config.fold \notin Keys(reranker_runs)
       THEN /\ End(Error("evaluate", MissingPredictions))
            /\ UNCHANGED rerun
       ELSE /\ pc' = "ev_fold"
            /\ UNCHANGED <<runvars, datasets, reranker_runs, result>>
    /\ UNCHANGED <<config, diskvars, reranker, log>>
    /\ UNCHANGED othervars

\* evaluate(), lines 195-203
EvFold ==
    /\ pc = "ev_fold"
    /\ LET mine == Get(reranker_runs, config.fold)
       IN result' = [kind |-> "fold", cmd |-> "evaluate",
                     fold_dev_metrics |-> Evaluate(mine.dev, folds[config.fold].dev),
                     fold_test_metrics |-> Evaluate(mine.test, folds[config.fold].test)]
    /\ log' = log \o << <<"evaluate", "fold_dev">>, <<"evaluate", "fold_test">> >>
    /\ pc' = "ev_cv"
    /\ UNCHANGED <<config, runvars, diskvars, reranker, datasets, reranker_runs>>
    /\ UNCHANGED othervars

\* evaluate(), lines 205-237
EvCV ==
    /\ pc = "ev_cv"
    /\ IF Len(reranker_runs) # Len(FoldOrder)
       THEN /\ log' = Append(log, <<"info", "skipping cross-validated metrics">>)
            /\ End([kind |-> "metrics", cmd |-> "evaluate",
                    found |-> Len(reranker_runs),
                    total |-> Len(FoldOrder),
                    value |-> ("fold_test_metrics" :> result.fold_test_metrics)
                              @@ ("fold_dev_metrics" :> result.fold_dev_metrics)
                              @@ ("cv_metrics" :> None)
                              @@ ("interpolated_cv_metrics" :> None)])
       ELSE /\ log' = log \o << <<"evaluate", "cv">>, <<"interpolated_eval">> >>
            /\ End([kind |-> "metrics", cmd |-> "evaluate",
                    found |-> Len(reranker_runs),
                    total |-> Len(FoldOrder),
                    value |-> ("fold_test_metrics" :> result.fold_test_metrics)
                              @@ ("fold_dev_metrics" :> result.fold_dev_metrics)
                              @@ ("cv_metrics" :> Evaluate(AllPreds(reranker_runs), Queries))
                              @@ ("interpolated_results" :> InterpolatedEval(SearcherRuns, reranker_runs))])
    /\ UNCHANGED <<config, rerun, diskvars, reranker>>
    /\ UNCHANGED othervars

\* traineval(), lines 41-43: train() has returned and evaluate() follows in the same
\* process, for the same configuration
TrainEval ==
    /\ pc = "idle"
    /\ result = [kind |-> "preds", cmd |-> "train"]
    /\ pc' = "ev_find"
    /\ reranker_runs' = <<>>
    /\ result' = NoResult
    /\ UNCHANGED <<config, runvars, diskvars, reranker, datasets, log>>
    /\ UNCHANGED othervars

\* the process of the running command is terminated: what it wrote stays on disk
Crash ==
    /\ pc \notin {"idle"}
    /\ log' = <<>>
    /\ reranker' = NoReranker
    /\ End([kind |-> "crashed", cmd |-> "none"])
    /\ UNCHANGED <<config, rerun, diskvars>>
    /\ UNCHANGED othervars

Next ==
    \/ Train \/ RrPreprocess \/ RrBuild \/ RrPrepare \/ RrTrain \/ RrLoadBest
    \/ RrDevPredict \/ RrTestRun \/ RrTestPredict
    \/ PredictCmd \/ PrPreprocess \/ PrLoad \/ PrTestRun \/ PrTestPredict
    \/ EvaluateCmd \/ EvFind \/ EvCheck \/ EvFold \/ EvCV
    \/ TrainEval
    \/ Crash

Spec == Init /\ [][Next]_vars

-----------------------------------------------------------------------------
(* The sub-runs: C6, C7, C8 (under SpecRun) *)

Min(a, b) == IF a < b THEN a ELSE b

DevBuilt == pc \in {"run_dev", "run_test", "run_again"}

TestBuilt == pc \in {"run_test", "run_again", "run_predict_test"}

\* some query of the fold's set has more documents in the first-stage run than the cap
Capped(qids, k) ==
    \E i \in 1..Len(best_search_run) :
        best_search_run[i][1] \in qids /\ Len(best_search_run[i][2]) > k

WithinFold(sub, qids, k) ==
    /\ Keys(sub) \subseteq qids
    /\ \A i \in 1..Len(sub) : Len(sub[i][2]) <= k

\* C6: the dev sub-run of rerank_run holds only query ids of the fold's dev set and at
\* most threshold documents per query; the test sub-run of rerank_run and of predict holds
\* only query ids of the fold's test set and at most testthreshold documents per query.
C6_SubRunsWithinFoldAndCap ==
    /\ DevBuilt => WithinFold(dev_run, folds[config.fold].dev, config.threshold)
    /\ TestBuilt => WithinFold(test_run, folds[config.fold].test, config.testthreshold)

\* a dev query and a test query were both cut by their cap, and a query was filtered out
C6_Witness ==
    /\ pc = "run_test"
    /\ dev_run # <<>>
    /\ test_run # <<>>
    /\ Capped(folds[config.fold].dev, config.threshold)
    /\ Capped(folds[config.fold].test, config.testthreshold)

FirstEntries(sub, k) ==
    \A i \in 1..Len(sub) :
        /\ sub[i][1] \in Keys(best_search_run)
        /\ LET docs == Get(best_search_run, sub[i][1])
           IN sub[i][2] = SubSeq(docs, 1, Min(k, Len(docs)))

C7_Inv ==
    /\ DevBuilt => FirstEntries(dev_run, config.threshold)
    /\ TestBuilt => FirstEntries(test_run, config.testthreshold)

\* C7: every query kept in a dev or test sub-run has exactly the first min(k, n) entries
\* of that query in the first-stage run, in the same order and with the same scores, and
\* the first-stage run is never modified.
C7_FirstEntriesKept == [] C7_Inv /\ [][best_search_run' = best_search_run]_vars

\* a kept dev query was cut to one of its two documents, a kept test query was not cut
C7_Witness ==
    /\ pc = "run_test"
    /\ config.threshold = 1
    /\ Capped(folds[config.fold].dev, 1)
    /\ test_run # <<>>
    /\ ~Capped(folds[config.fold].test, config.testthreshold)

\* C8: the sub-run construction applied to its own output, with the same query ids and the
\* same cap, returns that sub-run.
C8_Idempotent ==
    pc = "run_again" => rerun.dev = dev_run /\ rerun.test = test_run

\* the construction was applied again to a sub-run that a cap had cut
C8_Witness ==
    /\ pc = "run_again"
    /\ dev_run # <<>>
    /\ test_run # <<>>
    /\ Capped(folds[config.fold].dev, config.threshold)

-----------------------------------------------------------------------------
(* evaluate(): C1, C2, C3, C4, C9 (under Spec) *)

TestPathOf(f) == PredPath(ResultsPath(f), "test")

DevPathOf(f) == PredPath(ResultsPath(f), "dev")

HasTest(f) == TestPathOf(f) \in DOMAIN files

HasDev(f) == DevPathOf(f) \in DOMAIN files

FoldsWithTest == {f \in FoldNames : HasTest(f)}

\* evaluate() of the task configured for config.fold has returned or raised
Evaluated == pc = "idle" /\ result.cmd = "evaluate"

MetricCalls == {i \in 1..Len(log) : log[i][1] \in {"evaluate", "interpolated_eval"}}

FoldMetricsReturned ==
    /\ result.kind = "metrics"
    /\ result.value["fold_dev_metrics"] = Evaluate(files[DevPathOf(config.fold)], folds[config.fold].dev)
    /\ result.value["fold_test_metrics"] = Evaluate(files[TestPathOf(config.fold)], folds[config.fold].test)

\* C1: whenever no test prediction file exists for the configured fold, evaluate() raises
\* the missing-predictions error (run train first), before any metric is computed.
C1_MissingPredictionsRaised ==
    (Evaluated /\ ~HasTest(config.fold)) =>
        /\ result.kind = "error"
        /\ result.error = MissingPredictions
        /\ MetricCalls = {}

\* C2: when the configured fold has its predictions and fewer folds have test predictions
\* than the benchmark has folds, evaluate() returns the configured fold's dev and test
\* metrics with cv_metrics = None and reports the folds found over the number of folds.
C2_PartialCoverageReturned ==
    (Evaluated /\ HasTest(config.fold) /\ HasDev(config.fold)
        /\ Cardinality(FoldsWithTest) < Len(FoldOrder)) =>
        /\ FoldMetricsReturned
        /\ result.value["cv_metrics"] = None
        /\ result.found = Cardinality(FoldsWithTest)
        /\ result.total = Len(FoldOrder)

\* C3: evaluate() on a fold whose own dev and test predictions exist completes and returns
\* the single-fold metrics, whichever dev and test prediction files of the other folds exist.
C3_OtherFoldsNeverFatal ==
    (Evaluated /\ HasTest(config.fold) /\ HasDev(config.fold)) => FoldMetricsReturned

\* the entries of a run: (qid, docid, score)
Entries(run) ==
    UNION {{<<run[i][1], run[i][2][j][1], run[i][2][j][2]>> : j \in 1..Len(run[i][2])} : i \in 1..Len(run)}

\* the pooled run holds the union of the folds' test pairs, each with a score of a fold
Pooled(run) ==
    /\ Pairs(run) = UNION {Pairs(files[TestPathOf(f)]) : f \in FoldNames}
    /\ Entries(run) \subseteq UNION {Entries(files[TestPathOf(f)]) : f \in FoldNames}

CrossValidated ==
    /\ result.kind = "metrics"
    /\ \/ result.value["cv_metrics"] # None
       \/ "interpolated_results" \in DOMAIN result.value

\* C4: when test predictions exist for all folds, evaluate() scores the pooled run of all
\* folds' test predictions and computes the interpolated result, and only then.
C4_PooledWhenAllFolds ==
    Evaluated =>
        /\ (\A f \in FoldNames : HasTest(f)) =>
              /\ result.kind = "metrics"
              /\ "interpolated_results" \in DOMAIN result.value
              /\ result.value["cv_metrics"] # None
              /\ Pooled(result.value["cv_metrics"].run)
        /\ CrossValidated => \A f \in FoldNames : HasTest(f)

ConfiguredTestPath == PredPath(ResultsPath(config.fold), "test")

\* C9: the lookup of fold f replaces "fold-<configured fold>" by "fold-<f>" in the configured
\* fold's prediction path: the configured fold gets its own path, distinct folds get
\* distinct paths, and a fold is reported only when its own test predictions exist.
C9_FoldPathsDistinct ==
    /\ pc = "ev_find" =>
          /\ FoldPath(ConfiguredTestPath, config.fold) = ConfiguredTestPath
          /\ \A f \in FoldNames : \A g \in FoldNames :
                f # g => FoldPath(ConfiguredTestPath, f) # FoldPath(ConfiguredTestPath, g)
          /\ \A f \in FoldNames : FoldPath(ConfiguredTestPath, f) = TestPathOf(f)
    /\ pc \in {"ev_check", "ev_fold", "ev_cv"} =>
          \A i \in 1..Len(reranker_runs) :
              /\ HasTest(reranker_runs[i][1])
              /\ reranker_runs[i][2].test = files[TestPathOf(reranker_runs[i][1])]

\* two folds were reported, the configured fold was not
C9_Witness ==
    /\ pc = "ev_check"
    /\ Len(reranker_runs) = 2
    /\ config.fold \notin Keys(reranker_runs)
    /\ HasDev(config.fold)

-----------------------------------------------------------------------------
(* rerank_run and predict: C5, C10 (under Spec) *)

InRerankRun ==
    \/ pc \in {"rr_preprocess", "rr_build", "rr_prepare", "rr_train", "rr_load", "rr_dev",
               "rr_test", "rr_predict"}
    \/ pc = "idle" /\ result.cmd = "train"

Calls(name) == {i \in 1..Len(log) : log[i][1] = name}

PredictCalls(split) == {i \in Calls("predict") : log[i][2] = split}

C5_Inv ==
    InRerankRun =>
        /\ \A i \in Calls("load_best_model") : \E j \in Calls("train") : j < i
        /\ \A i \in Calls("predict") :
              /\ \E j \in Calls("load_best_model") : j < i
              /\ log[i][3] = weights[Root]
        /\ pc = "idle" => Cardinality(PredictCalls("test")) = 1

\* the step of rerank_run at lines 105-107 calls predict on dev exactly when pred/dev/best
\* is missing, and no other step calls it
C5_Step ==
    LET called == Cardinality(PredictCalls("dev")') > Cardinality(PredictCalls("dev"))
    IN /\ (pc = "rr_dev" /\ pc' = "rr_test") => (called <=> ~Exists(PredPath(Root, "dev")))
       /\ called => pc = "rr_dev" /\ ~Exists(PredPath(Root, "dev"))

\* C5: rerank_run calls Trainer.train, then load_best_model, and only then Trainer.predict;
\* predict on dev only if pred/dev/best does not exist, predict on test exactly once on
\* every run, always with the best checkpoint loaded.
C5_TrainLoadPredictOrder == [] C5_Inv /\ [][C5_Step]_vars

\* a run that found pred/dev/best in place and predicted on test alone
C5_Witness ==
    /\ pc = "idle"
    /\ result.cmd = "train"
    /\ PredictCalls("dev") = {}
    /\ Cardinality(PredictCalls("test")) = 1

Preprocessed(dataset) ==
    /\ Keys(dataset) \subseteq reranker.preprocessed[1]
    /\ DocIds(dataset) \subseteq reranker.preprocessed[2]

\* C10: in rerank_run and in predict the extractor's preprocess step precedes build_model
\* and every sampler's prepare, and covers every query and document of every dataset.
C10_PreprocessFirst ==
    /\ \A i \in Calls("build_model") \cup Calls("prepare") : \E j \in Calls("preprocess") : j < i
    /\ (pc \notin {"idle", "ev_find", "ev_check", "ev_fold", "ev_cv"} /\ Calls("preprocess") # {}) =>
          /\ reranker.preprocessed[1] = {best_search_run[i][1] : i \in 1..Len(best_search_run)}
          /\ \A i \in 1..Len(best_search_run) : \A j \in 1..Len(best_search_run[i][2]) :
                best_search_run[i][2][j][1] \in reranker.preprocessed[2]
    /\ Preprocessed(datasets.train)
    /\ Preprocessed(datasets.dev)
    /\ Preprocessed(datasets.test)

\* the three datasets of rerank_run are prepared
C10_Witness ==
    /\ pc = "rr_predict"
    /\ datasets.train # <<>>
    /\ datasets.dev # <<>>
    /\ datasets.test # <<>>
    /\ Calls("build_model") # {}

-----------------------------------------------------------------------------
(* CodeSearchNetCorpus.download_if_missing (benchmark/codesearchnet.py)    *)

\* a docstring of at least WordLimit words is cut to its first KeptWords words
WordLimit == 1024
KeptWords == 1020

\* records read from each of the train, valid and test sets
MaxRecords == 1
\* the longest docstring has up to MaxWords words
MaxWords == 1026
\* the short docstring's words
ShortWords == 3

SetNames == <<"train", "valid", "test">>

\* the raw texts of the docstrings, and of the code: a code text may equal a docstring's
DocstringTexts == {"A", "L"}
CodeTexts == {"A", "x"}

\* a text of n words, as str.split() lists them; a word is named by its position
Words(n) == [i \in 1..n |-> i]

\* docstrings["final"] of a record: the long docstring has `long` words
DocstringFinal(raw, long) == IF raw = "L" THEN Words(long) ELSE Words(ShortWords)

\* the collection's document id of a url: one per url
get_docid(url, doc) == <<"doc", url>>

Digits == <<"0", "1", "2", "3", "4", "5", "6", "7", "8", "9">>

RECURSIVE Str(_)
\* str(n), the decimal digits of n
Str(n) == IF n < 10 THEN <<Digits[n + 1]>> ELSE Str(n \div 10) \o <<Digits[(n % 10) + 1]>>

\* dict.get(key, default)
DictGet(d, k, default) == IF k \in Keys(d) THEN Get(d, k) ELSE default

\* the cut leaves a docstring of exactly WordLimit words whole
ChunkDocstringLate(words) ==
    IF Len(words) > WordLimit THEN SubSeq(words, 1, KeptWords) ELSE words

\* lines 106-111: a docstring of WordLimit words or more keeps its first KeptWords words
ChunkDocstring(words) ==
    IF Len(words) >= WordLimit THEN SubSeq(words, 1, KeptWords) ELSE words

\* topic_to_trectxt(qid, query): one topic of the topic file
topic_to_trectxt(qid, query) == [qid |-> qid, title |-> query]

InitCsn ==
    /\ config = [fold |-> S1, threshold |-> Threshold, testthreshold |-> TestThreshold]
    /\ pc = "idle"
    /\ best_search_run = <<>>
    /\ train_run = <<>>
    /\ dev_run = <<>>
    /\ test_run = <<>>
    /\ rerun = NoRerun
    /\ files = <<>>
    /\ weights = <<>>
    /\ reranker = NoReranker
    /\ datasets = NoDatasets
    /\ log = <<>>
    /\ reranker_runs = <<>>
    /\ result = NoResult
    /\ extractor = NoExtractor
    /\ corpus \in {[pc |-> "none", long |-> n] : n \in (WordLimit - 1)..MaxWords}

\* lines 93-101: no cached files, the locals are initialised and the files opened
CsnOpen ==
    /\ corpus.pc = "none"
    /\ corpus' = [pc |-> "loop", long |-> corpus.long, set |-> 1, read |-> 0, records |-> <<>>,
                  query_map |-> <<>>,
                  qids |-> [s \in {SetNames[i] : i \in 1..Len(SetNames)} |-> <<>>],
                  qrel_file |-> <<>>, topic_file |-> <<>>]
    /\ UNCHANGED <<config, pc, runvars, diskvars, taskvars, extractor>>

\* lines 105-120: one record of the current set; records keeps the url and the raw
\* texts of the records read so far
CsnRecord ==
    /\ corpus.pc = "loop"
    /\ corpus.read < MaxRecords
    /\ \E code \in CodeTexts, doc \in DocstringTexts :
        LET data == [url |-> Len(corpus.records) + 1, code_raw |-> code, docstring_raw |-> doc,
                     docstring_final |-> ChunkDocstring(DocstringFinal(doc, corpus.long))]
            docid == get_docid(data.url, data.code_raw)
            qid == DictGet(corpus.query_map, data.code_raw, Str(Len(corpus.query_map)))
            new == data.docstring_raw \notin Keys(corpus.query_map)
        IN corpus' = [corpus EXCEPT
                        !.read = @ + 1,
                        !.records = Append(@, [url |-> data.url, code_raw |-> data.code_raw,
                                               docstring_raw |-> data.docstring_raw]),
                        !.qrel_file = Append(@, <<qid, docid>>),
                        !.query_map = IF new THEN Put(@, data.docstring_raw, qid) ELSE @,
                        !.qids = IF new THEN [@ EXCEPT ![SetNames[corpus.set]] = Append(@, qid)] ELSE @,
                        !.topic_file = IF new THEN Append(@, topic_to_trectxt(qid, data.docstring_final))
                                       ELSE @]
    /\ UNCHANGED <<config, pc, runvars, diskvars, taskvars, extractor>>

\* line 103: the current set has no more records, the next set follows
CsnNextSet ==
    /\ corpus.pc = "loop"
    /\ corpus.set < Len(SetNames)
    /\ corpus' = [corpus EXCEPT !.set = @ + 1, !.read = 0]
    /\ UNCHANGED <<config, pc, runvars, diskvars, taskvars, extractor>>

\* lines 122-130: after the last set the query map and the fold are written
CsnDump ==
    /\ corpus.pc = "loop"
    /\ corpus.set = Len(SetNames)
    /\ corpus' = [pc |-> "done", long |-> corpus.long, records |-> corpus.records,
                  query_map |-> corpus.query_map,
                  qrel_file |-> corpus.qrel_file, topic_file |-> corpus.topic_file,
                  query_map_file |-> corpus.query_map,
                  fold_file |-> [s1 |-> [train_qids |-> corpus.qids["train"],
                                         predict |-> [dev |-> corpus.qids["valid"],
                                                      test |-> corpus.qids["test"]]]]]
    /\ UNCHANGED <<config, pc, runvars, diskvars, taskvars, extractor>>

\* lines 88-91: the files exist, the query map is loaded from its file
CsnCached ==
    /\ corpus.pc \in {"done", "cached"}
    /\ corpus' = [corpus EXCEPT !.pc = "cached", !.query_map = corpus.query_map_file]
    /\ UNCHANGED <<config, pc, runvars, diskvars, taskvars, extractor>>

NextCsn == CsnOpen \/ CsnRecord \/ CsnNextSet \/ CsnDump \/ CsnCached

SpecCsn == InitCsn /\ [][NextCsn]_vars

-----------------------------------------------------------------------------
(* Claims about download_if_missing                                        *)

Range(seq) == {seq[i] : i \in 1..Len(seq)}

Dumped == corpus.pc \in {"done", "cached"}

\* C11: the train query ids and the test query ids of the fold s1 that
\* download_if_missing writes are disjoint, whatever records the train,
\* valid and test sets hold.
C11_TrainTestDisjoint ==
    Dumped =>
        Range(corpus.fold_file.s1.train_qids) \cap Range(corpus.fold_file.s1.predict.test) = {}

\* C14: every qrels line written for a record pairs the record's document
\* id with the query id that the query map assigns to the record's
\* docstring, also when that docstring was seen in an earlier record.
C14_QrelsFollowQueryMap ==
    corpus.pc \in {"loop", "done", "cached"} =>
        \A i \in 1..Len(corpus.qrel_file) :
            corpus.qrel_file[i] =
                <<Get(corpus.query_map, corpus.records[i].docstring_raw),
                  get_docid(corpus.records[i].url, corpus.records[i].code_raw)>>

\* the docstring, as read, of the j-th topic written: topics and query map
\* entries are appended together
TopicSource(j) == DocstringFinal(corpus.query_map[j][1], corpus.long)

-----------------------------------------------------------------------------
(* Claims about the train sub-run                                          *)

\* C12: the train sub-run of rerank_run holds exactly the queries of the
\* first-stage run whose id is in the fold's train set, each once and with
\* all of its documents and scores, however many; the dev sub-run holds at
\* most threshold documents per query.
C12_TrainRunUncapped ==
    DevBuilt =>
        /\ Keys(train_run) = Keys(best_search_run) \cap folds[config.fold].train_qids
        /\ Len(train_run) = Cardinality(Keys(train_run))
        /\ \A q \in Keys(train_run) : Get(train_run, q) = Get(best_search_run, q)
        /\ \A i \in 1..Len(dev_run) : Len(dev_run[i][2]) <= config.threshold

\* a train query keeps more documents than the threshold, a dev query was cut,
\* and a query outside the train set was left out
C12_Witness ==
    /\ pc = "run_dev"
    /\ \E i \in 1..Len(train_run) : Len(train_run[i][2]) > config.threshold
    /\ Capped(folds[config.fold].dev, config.threshold)
    /\ dev_run # <<>>
    /\ Len(train_run) < Len(best_search_run)

-----------------------------------------------------------------------------
(* Claims about traineval                                                  *)

\* evaluate() runs, or has ended, after the train() of the same process
EvaluateAfterTrain ==
    /\ <<"train">> \in Range(log)
    /\ pc \in {"ev_find", "ev_check", "ev_fold", "ev_cv"} \/ Evaluated

\* C13: after train() has completed for the configured fold, the evaluate()
\* that follows it finds that fold's dev and test predictions: both files
\* exist at the paths the lookup builds for the fold, the lookup's result
\* holds the fold with the two runs of these files, and evaluate() does not
\* raise the missing-predictions error.
C13_EvaluateAfterTrainFinds ==
    EvaluateAfterTrain =>
        LET test_path == FoldPath(TestPathOf(config.fold), config.fold)
            dev_path == FoldPath(DevPathOf(config.fold), config.fold)
        IN /\ Exists(test_path)
           /\ Exists(dev_path)
           /\ pc \in {"ev_check", "ev_fold", "ev_cv"} =>
                /\ config.fold \in Keys(reranker_runs)
                /\ Get(reranker_runs, config.fold) =
                        [test |-> LoadTrecRun(test_path), dev |-> LoadTrecRun(dev_path)]
           /\ (Evaluated /\ result.kind = "error") => result.error # MissingPredictions

\* traineval has returned the fold's metrics
C13_Witness ==
    /\ EvaluateAfterTrain
    /\ Evaluated
    /\ result.kind = "metrics"

-----------------------------------------------------------------------------
(* Claims about the mapping evaluate() returns                             *)

\* the keys of the mapping returned when predictions exist for all folds
AllFoldsKeys == {"fold_test_metrics", "fold_dev_metrics", "cv_metrics", "interpolated_results"}

\* C15: the mapping evaluate() returns has the same keys whether or not
\* predictions exist for all folds, the keys of the all-folds mapping; with
\* folds missing the cross-validated and interpolated entries are None.
C15_SameKeys ==
    (Evaluated /\ result.kind = "metrics") =>
        /\ DOMAIN result.value = AllFoldsKeys
        /\ result.found # result.total =>
                \A k \in {"cv_metrics", "interpolated_results"} : result.value[k] = None

-----------------------------------------------------------------------------
(* The BagOfWords vocabulary (extractor/bagofwords.py, extractor/__init__.py) *)

pad == 0
pad_tok == "<pad>"

\* tokens of the tokenized queries and documents; a text may hold the pad token
Tokens == {pad_tok, "a", "b", "c"}

\* a token list holds up to MaxToks tokens
MaxToks == 1

TokLists == UNION {[1..n -> Tokens] : n \in 0..MaxToks}

\* toks_list: one token list, or one followed by a list of at most one token
ToksLists ==
    {<<t>> : t \in TokLists} \cup {<<t, u>> : t \in TokLists, u \in UNION {[1..n -> Tokens] : n \in 0..1}}

\* self.index.getidf(tok)
getidf(tok) == <<"idf", tok>>

\* every token of the list is given the next id, known or not
StoiTokAlways(st, tok, calculate_idf) ==
    [stoi |-> Put(st.stoi, tok, Len(st.stoi)),
     idf |-> IF calculate_idf THEN Put(st.idf, tok, getidf(tok)) ELSE st.idf]

\* build_stoi, lines 54-59: a token not yet in stoi is given the id len(stoi)
StoiTok(st, tok, calculate_idf) ==
    IF tok \notin Keys(st.stoi)
    THEN [stoi |-> Put(st.stoi, tok, Len(st.stoi)),
          idf |-> IF calculate_idf THEN Put(st.idf, tok, getidf(tok)) ELSE st.idf]
    ELSE st

RECURSIVE StoiToks(_, _, _, _)
\* for tok in toks
StoiToks(st, toks, i, calculate_idf) ==
    IF i > Len(toks)
    THEN st
    ELSE StoiToks(StoiTok(st, toks[i], calculate_idf), toks, i + 1, calculate_idf)

RECURSIVE StoiLists(_, _, _, _)
\* for toks in toks_list
StoiLists(st, toks_list, i, calculate_idf) ==
    IF i > Len(toks_list)
    THEN st
    ELSE StoiLists(StoiToks(st, toks_list[i], 1, calculate_idf), toks_list, i + 1, calculate_idf)

\* BuildStoIMixin.build_stoi on the extractor's stoi and idf
build_stoi(st, toks_list, keepstops, calculate_idf) == StoiLists(st, toks_list, 1, calculate_idf)

\* self._extend_stoi(toks_list, calc_idf): the same extension of stoi
extend_stoi(st, toks_list, calc_idf) == StoiLists(st, toks_list, 1, calc_idf)

RECURSIVE ItosLoop(_, _, _)
\* {i: s for s, i in stoi.items()}
ItosLoop(acc, stoi, k) ==
    IF k > Len(stoi)
    THEN acc
    ELSE ItosLoop(Put(acc, stoi[k][2], stoi[k][1]), stoi, k + 1)

\* BagOfWords.exist
exist ==
    /\ extractor.created
    /\ Len(extractor.stoi) > 1

InitBow ==
    /\ config = [fold |-> S1, threshold |-> Threshold, testthreshold |-> TestThreshold]
    /\ pc = "idle"
    /\ best_search_run = <<>>
    /\ train_run = <<>>
    /\ dev_run = <<>>
    /\ test_run = <<>>
    /\ rerun = NoRerun
    /\ files = <<>>
    /\ weights = <<>>
    /\ reranker = NoReranker
    /\ datasets = NoDatasets
    /\ log = <<>>
    /\ reranker_runs = <<>>
    /\ result = NoResult
    /\ corpus = NoCorpus
    /\ extractor = NoExtractor

\* BagOfWords.create, lines 100-112, with _build_vocab (usecache off, datamode unigram)
\* and _build_vocab_unigram, lines 63-70, for one query and one document
BowCreate ==
    /\ IF exist
       THEN UNCHANGED extractor
       ELSE \E q \in TokLists, d \in TokLists :
            LET qid2toks == << <<"q1", q>> >>
                docid2toks == << <<"d1", d>> >>
                st0 == [stoi |-> << <<pad_tok, pad>> >>, idf |-> <<>>]
                st1 == extend_stoi(st0, <<q>>, TRUE)
                st2 == extend_stoi(st1, <<d>>, FALSE)
            IN extractor' = [created |-> TRUE,
                             stoi |-> st2.stoi,
                             itos |-> ItosLoop(<<>>, st2.stoi, 1),
                             idf |-> st2.idf,
                             qid2toks |-> qid2toks,
                             docid2toks |-> docid2toks,
                             embeddings |-> st2.stoi]
    /\ UNCHANGED <<config, pc, runvars, diskvars, taskvars, corpus>>

\* build_stoi, lines 47-59, on the created extractor; embeddings is the stoi dict itself
BowBuildStoi ==
    /\ extractor.created
    /\ \E toks_list \in ToksLists, keepstops \in {FALSE}, calculate_idf \in BOOLEAN :
        LET st == build_stoi([stoi |-> extractor.stoi, idf |-> extractor.idf],
                             toks_list, keepstops, calculate_idf)
        IN extractor' = [extractor EXCEPT !.stoi = st.stoi, !.idf = st.idf, !.embeddings = st.stoi]
    /\ UNCHANGED <<config, pc, runvars, diskvars, taskvars, corpus>>

NextBow == BowCreate \/ BowBuildStoi

SpecBow == InitBow /\ [][NextBow]_vars

-----------------------------------------------------------------------------
(* Claims about the vocabulary                                             *)

Ids(stoi) == {stoi[k][2] : k \in 1..Len(stoi)}

Injective(stoi) ==
    \A j, k \in 1..Len(stoi) : (stoi[j][1] = stoi[k][1] \/ stoi[j][2] = stoi[k][2]) => j = k

\* itos maps every id of stoi to its token and holds nothing else
InverseOf(itos, stoi) ==
    /\ Len(itos) = Len(stoi)
    /\ Keys(itos) = Ids(stoi)
    /\ \A tok \in Keys(stoi) : Get(itos, Get(stoi, tok)) = tok

VocabularyInv ==
    /\ Injective(extractor.stoi)
    /\ Ids(extractor.stoi) = 0..(Len(extractor.stoi) - 1)
    /\ pad_tok \in Keys(extractor.stoi)
    /\ Get(extractor.stoi, pad_tok) = pad

ItosOfBuild ==
    /\ Len(extractor.itos) <= Len(extractor.stoi)
    /\ InverseOf(extractor.itos, SubSeq(extractor.stoi, 1, Len(extractor.itos)))

C17_Inv ==
    extractor.created =>
        /\ VocabularyInv
        /\ ItosOfBuild

C17_Step ==
    extractor.created =>
        /\ \A tok \in Keys(extractor.stoi) :
            /\ tok \in Keys(extractor'.stoi)
            /\ Get(extractor'.stoi, tok) = Get(extractor.stoi, tok)
        /\ \/ extractor'.itos = extractor.itos
           \/ InverseOf(extractor'.itos, extractor'.stoi)

====
